---------------------------- MODULE Spec2Model ----------------------------
(***************************************************************************)
(* Model of the HTML-to-image service (src/main.py): the module globals    *)
(* browser_instance, playwright_instance and browser_lock, the lifespan    *)
(* handler, get_browser and the generate_image request handler, with the   *)
(* playwright driver as the environment (every awaited driver call either  *)
(* returns or raises).  The greedy text wrapper of the bitmap-font variant *)
(* of the service is modelled separately (WrapSpec).                       *)
(***************************************************************************)
EXTENDS Integers, Sequences, FiniteSets, TLC

\* ----------------------------------------------------------------- bounds
\* Number of HTTP requests handled during one run of the application.
NumRequests == 2
\* Longest text handed to the wrapper, in characters.
MaxLen == 4
\* Largest maximum line width handed to the wrapper, in pixels.
MaxWidth == 5

\* ---------------------------------------------------------------- constants
\* Python's None for the two module globals and for unset locals.
None == 0
\* scale = 2 in generate_image.
scale == 2
\* device_scale_factor=2 passed to browser.new_page.
device_scale_factor == 2

Lifespan == 0
Requests == 1..NumRequests
Procs == {Lifespan} \cup Requests

VARIABLES
    pc,                  \* position of the lifespan handler and of each request
    browser_instance,    \* module global: None or the handle of a launched browser
    playwright_instance, \* module global: None or the handle of a started driver
    browser_lock,        \* asyncio.Lock: TRUE when locked
    started,             \* environment: number of playwright drivers started
    launched,            \* environment: number of chromium browsers launched
    close_calls,         \* environment: calls of browser_instance.close()
    stop_calls,          \* environment: calls of playwright_instance.stop()
    pages,               \* environment: the pages created so far, by page id
    params,              \* per request: the query parameters
    html_content,        \* per request: local html_content
    browser,             \* per process: value returned by get_browser()
    page,                \* per request: local page (a page id)
    screenshot_bytes,    \* per request: local screenshot_bytes
    exc,                 \* per request: exception in flight inside try/finally
    response,            \* per request: the Response returned
    trace,               \* per process: driver calls made, with their outcome
    text,                \* wrapper input: the text, a sequence of characters
    max_width,           \* wrapper input: maximum line width
    char_width,          \* wrapper input: width of each character
    lines                \* wrapper output: the wrapped lines

serverVars == <<pc, browser_instance, playwright_instance, browser_lock,
                started, launched, close_calls, stop_calls, pages, params,
                html_content, browser, page, screenshot_bytes, exc,
                response, trace>>
wrapVars == <<text, max_width, char_width, lines>>
vars == <<serverVars, wrapVars>>

\* ------------------------------------------------------- request parameters
DefaultParams ==
    [text |-> "Hello, <b>World</b>!", width |-> 800, height |-> 1000,
     font_size |-> 36, padding |-> 20]

SmallParams ==
    [text |-> "x", width |-> 1, height |-> 3, font_size |-> 5, padding |-> 0]

ParamSet == {DefaultParams, SmallParams}

NoParams == [text |-> "", width |-> 0, height |-> 0, font_size |-> 0, padding |-> 0]

\* The template embeds the content and the four numbers in the page's CSS.
create_html_template(content, width, height, font_size, padding) ==
    [content |-> content, width |-> width, height |-> height,
     font_size |-> font_size, padding |-> padding]

NoHtml == create_html_template("", 0, 0, 0, 0)

RenderHtml(q) ==
    create_html_template(q.text, q.width * scale, q.height * scale,
                         q.font_size * scale, q.padding * scale)

\* ------------------------------------------------------------- environment
\* A page as browser.new_page creates it for request r.
NewPage(r, q) ==
    [owner |-> r,
     viewport |-> [width |-> q.width * scale, height |-> q.height * scale],
     device_scale_factor |-> device_scale_factor,
     content |-> NoHtml,
     users |-> {},
     close_calls |-> 0,
     close_raised |-> FALSE,
     open |-> TRUE]

NoBytes == [width |-> 0, height |-> 0, content |-> NoHtml]

\* What page.screenshot(type="png", full_page=False) returns: the viewport in
\* device pixels (viewport size times device_scale_factor) showing the content.
Screenshot(p) ==
    [width |-> p.viewport.width * p.device_scale_factor,
     height |-> p.viewport.height * p.device_scale_factor,
     content |-> p.content]

\* ---------------------------------------------------------------- responses
NoResponse == [status |-> 0, media_type |-> "", headers |-> <<>>, body |-> <<>>]

\* Faulty variant: the success response is built without media type and headers.
PngResponse_bare(bytes) ==
    [status |-> 200, media_type |-> "", headers |-> <<>>, body |-> <<bytes>>]

PngResponse(bytes) ==
    [status |-> 200, media_type |-> "image/png",
     headers |-> <<"Cache-Control: public, max-age=3600",
                   "Content-Disposition: inline">>,
     body |-> <<bytes>>]

ErrorResponse(msg) ==
    [status |-> 500, media_type |-> "application/json",
     headers |-> <<>>,
     body |-> <<"{\"error\": \"", msg, "\"}">>]

Call(name, ok) == [call |-> name, ok |-> ok]

Log(p, name, ok) == [trace EXCEPT ![p] = Append(@, Call(name, ok))]

\* ------------------------------------------------------------------- wrapper
\* The greedy text wrapper.  Text is a sequence of characters; a line is a
\* sequence of characters without a newline.
Space == " "
Newline == "\n"
Chars == {"a", "b", Space, Newline}

\* The width functions tried: every character one pixel wide, and a wide "a".
WidthFns ==
    {[c \in Chars |-> 1],
     [c \in Chars |-> IF c = "a" THEN 3 ELSE 1]}

Texts == UNION {[1..n -> Chars] : n \in 0..MaxLen}

\* The width-measurement function: rendered pixel width of string s.
RECURSIVE Measure(_, _)
Measure(s, cw) ==
    IF s = <<>> THEN 0 ELSE cw[Head(s)] + Measure(Tail(s), cw)

\* Faulty variant: a line one pixel over the maximum is accepted.
Fits_offByOne(s, cw, mx) == Measure(s, cw) <= mx + 1

\* "does not exceed the maximum": a width exactly equal to max is included.
Fits(s, cw, mx) == Measure(s, cw) <= mx

\* Split s at every occurrence of sep, keeping empty pieces (as str.split(sep)):
\* piece is the piece being read.
RECURSIVE SplitOn(_, _, _)
SplitOn(s, sep, piece) ==
    IF s = <<>> THEN <<piece>>
    ELSE IF Head(s) = sep
         THEN <<piece>> \o SplitOn(Tail(s), sep, <<>>)
         ELSE SplitOn(Tail(s), sep, Append(piece, Head(s)))

\* The words of a paragraph: maximal runs of non-whitespace characters.
SplitWords(para) == SelectSeq(SplitOn(para, Space, <<>>), LAMBDA w : w # <<>>)

\* Character-level fallback for a word wider than the maximum: characters are
\* added to temp one at a time; when the next character would exceed the
\* maximum the line is closed and a new one starts with that character.
\* Yields the lines closed and the fragment left as the current line.
RECURSIVE BreakWord(_, _, _, _, _)
BreakWord(w, temp, out, cw, mx) ==
    IF w = <<>> THEN [out |-> out, cur |-> temp]
    ELSE IF Fits(Append(temp, Head(w)), cw, mx)
         THEN BreakWord(Tail(w), Append(temp, Head(w)), out, cw, mx)
         ELSE BreakWord(Tail(w), <<Head(w)>>,
                        IF temp = <<>> THEN out ELSE Append(out, temp), cw, mx)

\* Word-level accumulation: cur is the candidate line, out the lines closed.
RECURSIVE WrapWords(_, _, _, _, _)
WrapWords(words, cur, out, cw, mx) ==
    IF words = <<>> THEN (IF cur = <<>> THEN out ELSE Append(out, cur))
    ELSE LET w == Head(words)
             test_line == IF cur = <<>> THEN w ELSE cur \o <<Space>> \o w
             closed == IF cur = <<>> THEN out ELSE Append(out, cur)
         IN  IF Fits(test_line, cw, mx)
             THEN WrapWords(Tail(words), test_line, out, cw, mx)
             ELSE IF Fits(w, cw, mx)
                  THEN WrapWords(Tail(words), w, closed, cw, mx)
                  ELSE LET b == BreakWord(w, <<>>, closed, cw, mx)
                       IN  WrapWords(Tail(words), b.cur, b.out, cw, mx)

\* One paragraph: empty or whitespace-only gives exactly one empty line.
WrapParagraph(para, cw, mx) ==
    IF SplitWords(para) = <<>> THEN << <<>> >>
    ELSE WrapWords(SplitWords(para), <<>>, <<>>, cw, mx)

RECURSIVE WrapAll(_, _, _)
WrapAll(paras, cw, mx) ==
    IF paras = <<>> THEN <<>>
    ELSE WrapParagraph(Head(paras), cw, mx) \o WrapAll(Tail(paras), cw, mx)

\* The wrapper: split on explicit newlines, wrap each paragraph on its own.
wrap_text(t, cw, mx) == WrapAll(SplitOn(t, Newline, <<>>), cw, mx)

WrapIdle ==
    /\ text = <<>>
    /\ max_width = 0
    /\ char_width = <<>>
    /\ lines = <<>>

\* ---------------------------------------------------------------------- Init
Init ==
    \* An ASGI server that speaks the lifespan protocol runs the startup half
    \* of lifespan() before it serves requests; one that does not (or a test
    \* client used without its context manager) never calls lifespan at all.
    /\ \E l \in {"get_browser", "off"} :
          pc = [p \in Procs |-> IF p = Lifespan THEN l ELSE "idle"]
    /\ browser_instance = None
    /\ playwright_instance = None
    /\ browser_lock = FALSE
    /\ started = 0
    /\ launched = 0
    /\ close_calls = 0
    /\ stop_calls = 0
    /\ pages = <<>>
    /\ params = [r \in Requests |-> NoParams]
    /\ html_content = [r \in Requests |-> NoHtml]
    /\ browser = [p \in Procs |-> None]
    /\ page = [r \in Requests |-> None]
    /\ screenshot_bytes = [r \in Requests |-> NoBytes]
    /\ exc = [r \in Requests |-> ""]
    /\ response = [r \in Requests |-> NoResponse]
    /\ trace = [p \in Procs |-> <<>>]
    /\ WrapIdle

\* ------------------------------------------------------------- get_browser
\* get_browser returns h to its caller: lifespan goes on to its yield,
\* generate_image to browser.new_page.
Return(p, h) ==
    /\ browser' = [browser EXCEPT ![p] = h]
    /\ pc' = [pc EXCEPT ![p] = IF p = Lifespan THEN "yield" ELSE "new_page"]
    /\ UNCHANGED response

\* get_browser raises: lifespan has no handler, so startup fails and the
\* application never serves; generate_image's except clause answers 500.
Raise(p, msg) ==
    /\ pc' = [pc EXCEPT ![p] = IF p = Lifespan THEN "startup_failed" ELSE "done"]
    /\ response' = IF p = Lifespan THEN response
                   ELSE [response EXCEPT ![p] = ErrorResponse(msg)]
    /\ UNCHANGED browser

\* async with browser_lock, browser_instance already set: the lock is taken
\* and released without an await in between, and the handle is returned.
LockHit(p) ==
    /\ pc[p] = "get_browser"
    /\ ~browser_lock
    /\ browser_instance # None
    /\ Return(p, browser_instance)
    /\ UNCHANGED <<browser_instance, playwright_instance, browser_lock, started,
                   launched, close_calls, stop_calls, pages, params,
                   html_content, page, screenshot_bytes, exc, trace>>

\* Faulty variant: the check of browser_instance is made without the lock.
LockMiss_unguarded(p) ==
    /\ pc[p] = "get_browser"
    /\ browser_instance = None
    /\ browser_lock' = TRUE
    /\ pc' = [pc EXCEPT ![p] = "start"]
    /\ UNCHANGED <<browser_instance, playwright_instance, started, launched,
                   close_calls, stop_calls, pages, params, html_content,
                   browser, page, screenshot_bytes, exc, response, trace>>

\* async with browser_lock, browser_instance is None: the lock stays held
\* across the two awaits that follow.
LockMiss(p) ==
    /\ pc[p] = "get_browser"
    /\ ~browser_lock
    /\ browser_instance = None
    /\ browser_lock' = TRUE
    /\ pc' = [pc EXCEPT ![p] = "start"]
    /\ UNCHANGED <<browser_instance, playwright_instance, started, launched,
                   close_calls, stop_calls, pages, params, html_content,
                   browser, page, screenshot_bytes, exc, response, trace>>

\* playwright_instance = await async_playwright().start()
StartOk(p) ==
    /\ pc[p] = "start"
    /\ started' = started + 1
    /\ playwright_instance' = started + 1
    /\ pc' = [pc EXCEPT ![p] = "launch"]
    /\ trace' = Log(p, "start", TRUE)
    /\ UNCHANGED <<browser_instance, browser_lock, launched, close_calls,
                   stop_calls, pages, params, html_content, browser, page,
                   screenshot_bytes, exc, response>>

\* Faulty variant: the lock is taken with acquire() and released only on the
\* normal path, so a failing start() leaves it held.
StartFail_keepsLock(p) ==
    /\ pc[p] = "start"
    /\ trace' = Log(p, "start", FALSE)
    /\ Raise(p, "start")
    /\ UNCHANGED <<browser_instance, playwright_instance, browser_lock, started,
                   launched, close_calls, stop_calls, pages, params,
                   html_content, page, screenshot_bytes, exc>>

\* start() raises: async with releases the lock on the way out.
StartFail(p) ==
    /\ pc[p] = "start"
    /\ browser_lock' = FALSE
    /\ trace' = Log(p, "start", FALSE)
    /\ Raise(p, "start")
    /\ UNCHANGED <<browser_instance, playwright_instance, started, launched,
                   close_calls, stop_calls, pages, params, html_content,
                   page, screenshot_bytes, exc>>

\* browser_instance = await playwright_instance.chromium.launch(...)
LaunchOk(p) ==
    /\ pc[p] = "launch"
    /\ launched' = launched + 1
    /\ browser_instance' = launched + 1
    /\ browser_lock' = FALSE
    /\ trace' = Log(p, "launch", TRUE)
    /\ Return(p, launched + 1)
    /\ UNCHANGED <<playwright_instance, started, close_calls, stop_calls,
                   pages, params, html_content, page, screenshot_bytes, exc>>

\* Faulty variant: a failing launch() leaves the lock held.
LaunchFail_keepsLock(p) ==
    /\ pc[p] = "launch"
    /\ trace' = Log(p, "launch", FALSE)
    /\ Raise(p, "launch")
    /\ UNCHANGED <<browser_instance, playwright_instance, browser_lock, started,
                   launched, close_calls, stop_calls, pages, params,
                   html_content, page, screenshot_bytes, exc>>

\* launch() raises: browser_instance keeps its value (None), playwright_instance
\* keeps the driver just started, and the lock is released.
LaunchFail(p) ==
    /\ pc[p] = "launch"
    /\ browser_lock' = FALSE
    /\ trace' = Log(p, "launch", FALSE)
    /\ Raise(p, "launch")
    /\ UNCHANGED <<browser_instance, playwright_instance, started, launched,
                   close_calls, stop_calls, pages, params, html_content,
                   page, screenshot_bytes, exc>>

\* ---------------------------------------------------------- generate_image
\* A request arrives with query parameters q: the handler scales them, builds
\* the HTML and calls get_browser.
Begin(r, q) ==
    /\ pc[r] = "idle"
    /\ pc[Lifespan] \in {"off", "yield"}
    /\ params' = [params EXCEPT ![r] = q]
    /\ html_content' = [html_content EXCEPT ![r] = RenderHtml(q)]
    /\ pc' = [pc EXCEPT ![r] = "get_browser"]
    /\ UNCHANGED <<browser_instance, playwright_instance, browser_lock, started,
                   launched, close_calls, stop_calls, pages, browser, page,
                   screenshot_bytes, exc, response, trace, wrapVars>>

\* page = await browser.new_page(viewport=..., device_scale_factor=2)
NewPageOk(r) ==
    /\ pc[r] = "new_page"
    /\ pages' = Append(pages, NewPage(r, params[r]))
    /\ page' = [page EXCEPT ![r] = Len(pages) + 1]
    /\ pc' = [pc EXCEPT ![r] = "set_content"]
    /\ trace' = Log(r, "new_page", TRUE)
    /\ UNCHANGED <<browser_instance, playwright_instance, browser_lock, started,
                   launched, close_calls, stop_calls, params, html_content,
                   browser, screenshot_bytes, exc, response, wrapVars>>

\* new_page raises outside the inner try: no page to close, answer 500.
NewPageFail(r) ==
    /\ pc[r] = "new_page"
    /\ pc' = [pc EXCEPT ![r] = "done"]
    /\ response' = [response EXCEPT ![r] = ErrorResponse("new_page")]
    /\ trace' = Log(r, "new_page", FALSE)
    /\ UNCHANGED <<browser_instance, playwright_instance, browser_lock, started,
                   launched, close_calls, stop_calls, pages, params,
                   html_content, browser, page, screenshot_bytes, exc, wrapVars>>

\* A driver call on the request's page records the caller in the page.
Use(r, p) == [p EXCEPT !.users = @ \cup {r}]

\* await page.set_content(html_content, wait_until="networkidle")
SetContentOk(r) ==
    /\ pc[r] = "set_content"
    /\ pages' = [pages EXCEPT ![page[r]] =
                    [Use(r, @) EXCEPT !.content = html_content[r]]]
    /\ pc' = [pc EXCEPT ![r] = "wait_for_timeout"]
    /\ trace' = Log(r, "set_content", TRUE)
    /\ UNCHANGED <<browser_instance, playwright_instance, browser_lock, started,
                   launched, close_calls, stop_calls, params, html_content,
                   browser, page, screenshot_bytes, exc, response, wrapVars>>

\* Faulty variant: no finally clause, the failing call goes straight to the
\* except clause and the page is never closed.
TryFail_noFinally(r, at) ==
    /\ pc[r] = at
    /\ pages' = [pages EXCEPT ![page[r]] = Use(r, @)]
    /\ exc' = [exc EXCEPT ![r] = at]
    /\ response' = [response EXCEPT ![r] = ErrorResponse(at)]
    /\ pc' = [pc EXCEPT ![r] = "done"]
    /\ trace' = Log(r, at, FALSE)
    /\ UNCHANGED <<browser_instance, playwright_instance, browser_lock, started,
                   launched, close_calls, stop_calls, params, html_content,
                   browser, page, screenshot_bytes, wrapVars>>

\* A call inside the inner try raises: control goes to the finally clause with
\* the exception in flight.
TryFail(r, at) ==
    /\ pc[r] = at
    /\ pages' = [pages EXCEPT ![page[r]] = Use(r, @)]
    /\ exc' = [exc EXCEPT ![r] = at]
    /\ pc' = [pc EXCEPT ![r] = "close"]
    /\ trace' = Log(r, at, FALSE)
    /\ UNCHANGED <<browser_instance, playwright_instance, browser_lock, started,
                   launched, close_calls, stop_calls, params, html_content,
                   browser, page, screenshot_bytes, response, wrapVars>>

SetContentFail(r) == TryFail(r, "set_content")

\* await page.wait_for_timeout(100)
WaitOk(r) ==
    /\ pc[r] = "wait_for_timeout"
    /\ pages' = [pages EXCEPT ![page[r]] = Use(r, @)]
    /\ pc' = [pc EXCEPT ![r] = "screenshot"]
    /\ trace' = Log(r, "wait_for_timeout", TRUE)
    /\ UNCHANGED <<browser_instance, playwright_instance, browser_lock, started,
                   launched, close_calls, stop_calls, params, html_content,
                   browser, page, screenshot_bytes, exc, response, wrapVars>>

WaitFail(r) == TryFail(r, "wait_for_timeout")

\* screenshot_bytes = await page.screenshot(type="png", full_page=False, ...)
\* followed by the return statement, which runs the finally clause.
ScreenshotOk(r) ==
    /\ pc[r] = "screenshot"
    /\ pages' = [pages EXCEPT ![page[r]] = Use(r, @)]
    /\ screenshot_bytes' = [screenshot_bytes EXCEPT ![r] = Screenshot(pages[page[r]])]
    /\ pc' = [pc EXCEPT ![r] = "close"]
    /\ trace' = Log(r, "screenshot", TRUE)
    /\ UNCHANGED <<browser_instance, playwright_instance, browser_lock, started,
                   launched, close_calls, stop_calls, params, html_content,
                   browser, page, exc, response, wrapVars>>

ScreenshotFail(r) == TryFail(r, "screenshot")

\* finally: await page.close() returns.  With no exception in flight the
\* pending return value is returned; otherwise the exception reaches the
\* except clause, which answers 500 with its message.
CloseOk(r) ==
    /\ pc[r] = "close"
    /\ pages' = [pages EXCEPT ![page[r]] =
                    [Use(r, @) EXCEPT !.close_calls = @ + 1, !.open = FALSE]]
    /\ response' = [response EXCEPT ![r] =
                      IF exc[r] = "" THEN PngResponse(screenshot_bytes[r])
                      ELSE ErrorResponse(exc[r])]
    /\ pc' = [pc EXCEPT ![r] = "done"]
    /\ trace' = Log(r, "close", TRUE)
    /\ UNCHANGED <<browser_instance, playwright_instance, browser_lock, started,
                   launched, close_calls, stop_calls, params, html_content,
                   browser, page, screenshot_bytes, exc, wrapVars>>

\* Faulty variant: the finally clause lies outside the outer try, so an
\* exception of page.close() leaves the handler.
CloseFail_propagates(r) ==
    /\ pc[r] = "close"
    /\ \E still_open \in BOOLEAN :
          pages' = [pages EXCEPT ![page[r]] =
                       [Use(r, @) EXCEPT !.close_calls = @ + 1,
                                         !.close_raised = TRUE,
                                         !.open = still_open]]
    /\ exc' = [exc EXCEPT ![r] = "close"]
    /\ pc' = [pc EXCEPT ![r] = "raised"]
    /\ trace' = Log(r, "close", FALSE)
    /\ UNCHANGED <<browser_instance, playwright_instance, browser_lock, started,
                   launched, close_calls, stop_calls, params, html_content,
                   browser, page, screenshot_bytes, response, wrapVars>>

\* finally: await page.close() raises.  Its exception replaces the pending
\* return value or the exception in flight and reaches the except clause.
\* Whether the driver closed the page before raising is not known.
CloseFail(r) ==
    /\ pc[r] = "close"
    /\ \E still_open \in BOOLEAN :
          pages' = [pages EXCEPT ![page[r]] =
                       [Use(r, @) EXCEPT !.close_calls = @ + 1,
                                         !.close_raised = TRUE,
                                         !.open = still_open]]
    /\ exc' = [exc EXCEPT ![r] = "close"]
    /\ response' = [response EXCEPT ![r] = ErrorResponse("close")]
    /\ pc' = [pc EXCEPT ![r] = "done"]
    /\ trace' = Log(r, "close", FALSE)
    /\ UNCHANGED <<browser_instance, playwright_instance, browser_lock, started,
                   launched, close_calls, stop_calls, params, html_content,
                   browser, page, screenshot_bytes, wrapVars>>

\* ---------------------------------------------------------------- lifespan
\* The server runs the shutdown half of lifespan() once no request is in flight.
Quiescent == \A r \in Requests : pc[r] \in {"idle", "done"}

\* Faulty variant: one try block around both calls, so an exception of
\* browser_instance.close() skips playwright_instance.stop().
ShutdownClose_oneTry ==
    /\ pc[Lifespan] = "yield"
    /\ Quiescent
    /\ \E ok \in BOOLEAN :
          IF browser_instance # None
          THEN /\ close_calls' = close_calls + 1
               /\ trace' = Log(Lifespan, "browser_close", ok)
               /\ pages' = IF ok
                           THEN [i \in DOMAIN pages |-> [pages[i] EXCEPT !.open = FALSE]]
                           ELSE pages
               /\ pc' = [pc EXCEPT ![Lifespan] = IF ok THEN "stop" ELSE "stopped"]
          ELSE /\ UNCHANGED <<close_calls, trace, pages>>
               /\ pc' = [pc EXCEPT ![Lifespan] = "stop"]
    /\ UNCHANGED <<browser_instance, playwright_instance, browser_lock, started,
                   launched, stop_calls, params, html_content, browser, page,
                   screenshot_bytes, exc, response, wrapVars>>

\* try: if browser_instance: await browser_instance.close()
\* except Exception: pass
\* A browser that closes takes its pages with it.
ShutdownClose ==
    /\ pc[Lifespan] = "yield"
    /\ Quiescent
    /\ \E ok \in BOOLEAN :
          IF browser_instance # None
          THEN /\ close_calls' = close_calls + 1
               /\ trace' = Log(Lifespan, "browser_close", ok)
               /\ pages' = IF ok
                           THEN [i \in DOMAIN pages |-> [pages[i] EXCEPT !.open = FALSE]]
                           ELSE pages
          ELSE UNCHANGED <<close_calls, trace, pages>>
    /\ pc' = [pc EXCEPT ![Lifespan] = "stop"]
    /\ UNCHANGED <<browser_instance, playwright_instance, browser_lock, started,
                   launched, stop_calls, params, html_content, browser, page,
                   screenshot_bytes, exc, response, wrapVars>>

\* try: if playwright_instance: await playwright_instance.stop()
\* except Exception: pass
ShutdownStop ==
    /\ pc[Lifespan] = "stop"
    /\ \E ok \in BOOLEAN :
          IF playwright_instance # None
          THEN /\ stop_calls' = stop_calls + 1
               /\ trace' = Log(Lifespan, "playwright_stop", ok)
          ELSE UNCHANGED <<stop_calls, trace>>
    /\ pc' = [pc EXCEPT ![Lifespan] = "stopped"]
    /\ UNCHANGED <<browser_instance, playwright_instance, browser_lock, started,
                   launched, close_calls, pages, params, html_content, browser,
                   page, screenshot_bytes, exc, response, wrapVars>>

\* ---------------------------------------------------------------------- Next
GetBrowser(p) ==
    /\ \/ LockHit(p)
       \/ LockMiss(p)
       \/ StartOk(p)
       \/ StartFail(p)
       \/ LaunchOk(p)
       \/ LaunchFail(p)
    /\ UNCHANGED wrapVars

Render(r) ==
    \/ NewPageOk(r)
    \/ NewPageFail(r)
    \/ SetContentOk(r)
    \/ SetContentFail(r)
    \/ WaitOk(r)
    \/ WaitFail(r)
    \/ ScreenshotOk(r)
    \/ ScreenshotFail(r)
    \/ CloseOk(r)
    \/ CloseFail(r)

Next ==
    \/ \E p \in Procs : GetBrowser(p)
    \/ \E r \in Requests : \E q \in ParamSet : Begin(r, q)
    \/ \E r \in Requests : Render(r)
    \/ ShutdownClose
    \/ ShutdownStop

Spec == Init /\ [][Next]_vars

\* ------------------------------------------------------- wrapper, as a system
\* The wrapper is a pure function: any text, width function and positive
\* maximum may be handed to it; the server plays no part.
WrapInit ==
    /\ pc = [p \in Procs |-> IF p = Lifespan THEN "off" ELSE "idle"]
    /\ browser_instance = None
    /\ playwright_instance = None
    /\ browser_lock = FALSE
    /\ started = 0
    /\ launched = 0
    /\ close_calls = 0
    /\ stop_calls = 0
    /\ pages = <<>>
    /\ params = [r \in Requests |-> NoParams]
    /\ html_content = [r \in Requests |-> NoHtml]
    /\ browser = [p \in Procs |-> None]
    /\ page = [r \in Requests |-> None]
    /\ screenshot_bytes = [r \in Requests |-> NoBytes]
    /\ exc = [r \in Requests |-> ""]
    /\ response = [r \in Requests |-> NoResponse]
    /\ trace = [p \in Procs |-> <<>>]
    /\ text \in Texts
    /\ max_width \in 1..MaxWidth
    /\ char_width \in WidthFns
    /\ lines = <<>>

\* Every text yields at least one line, so lines = <<>> means "not wrapped yet".
WrapText ==
    /\ lines = <<>>
    /\ lines' = wrap_text(text, char_width, max_width)
    /\ UNCHANGED <<text, max_width, char_width, serverVars>>

WrapNext == WrapText

WrapSpec == WrapInit /\ [][WrapNext]_vars

\* ---------------------------------------------------------------- properties
Done(r) == pc[r] = "done"

\* Process p made the driver call name and it raised / returned.
Failed(p, name) == \E i \in DOMAIN trace[p] : trace[p][i] = Call(name, FALSE)
Succeeded(p, name) == \E i \in DOMAIN trace[p] : trace[p][i] = Call(name, TRUE)
Called(p, name) == Failed(p, name) \/ Succeeded(p, name)

\* No driver call made by p has raised.
AllOk(p) == \A i \in DOMAIN trace[p] : trace[p][i].ok

\* The call whose exception was raised last in request r.
LastFailure(r) ==
    LET fails == SelectSeq(trace[r], LAMBDA c : ~c.ok)
    IN  fails[Len(fails)].call

\* Process p's call of get_browser has returned a value.
Returned(p) ==
    \/ pc[p] \in {"yield", "stop", "stopped", "new_page", "set_content",
                  "wait_for_timeout", "screenshot", "close"}
    \/ pc[p] = "done" /\ ~Failed(p, "start") /\ ~Failed(p, "launch")

\* Request r is between browser.new_page and page.close.
Rendering(r) == pc[r] \in {"set_content", "wait_for_timeout", "screenshot", "close"}

InCriticalSection(p) == pc[p] \in {"start", "launch"}

\* C1: over all get_browser calls (the startup call and one per request) and
\* all interleavings, at most one browser is ever launched, and every call
\* that has returned returned the handle now in browser_instance.
C1_SingleLaunch ==
    /\ launched <= 1
    /\ \A p \in Procs :
          Returned(p) => browser[p] # None /\ browser[p] = browser_instance

\* C1 witness: one call launched the browser and another call, made by a
\* different process, returned the same handle without launching.
C1_Witness ==
    \E p, q \in Procs :
        /\ p # q
        /\ Returned(p) /\ Returned(q)
        /\ Succeeded(p, "launch")
        /\ ~Called(q, "launch")
        /\ browser[p] = browser[q]

\* C2: a request in which a driver call raised is either still closing its
\* page or has ended with a 500 application/json response carrying the message
\* of the exception that reached the except clause; the handler never lets an
\* exception out and never makes the same driver call twice.
C2_FailureGives500 ==
    \A r \in Requests :
        /\ pc[r] # "raised"
        /\ ~AllOk(r) =>
              \/ pc[r] = "close"
              \/ Done(r) /\ response[r] = ErrorResponse(LastFailure(r))
        /\ \A i, j \in DOMAIN trace[r] :
              i # j => trace[r][i].call # trace[r][j].call

\* C2 witness: one request ended 500 on a failed launch and another ended 500
\* after both its screenshot and its page.close raised.
C2_Witness ==
    \E r1, r2 \in Requests :
        /\ Done(r1) /\ Failed(r1, "launch") /\ response[r1].status = 500
        /\ Done(r2) /\ Failed(r2, "screenshot") /\ Failed(r2, "close")
        /\ response[r2] = ErrorResponse("close")

PageUse ==
    /\ \A i \in DOMAIN pages :
          LET r == pages[i].owner
          IN  /\ page[r] = i
              /\ pages[i].users \subseteq {r}
              /\ pages[i].close_calls <= 1
              /\ response[r] # NoResponse => pages[i].close_calls = 1
              /\ Done(r) => pages[i].close_calls = 1
    /\ \A r1, r2 \in Requests :
          r1 # r2 /\ page[r1] # None => page[r1] # page[r2]

AllFinished == \A r \in Requests : Done(r)

\* C3 as stated: every page is used and closed only by the request that opened
\* it, page.close is called on it exactly once before the response is returned,
\* and once all requests have finished no page remains open.
C3_Original ==
    /\ PageUse
    /\ AllFinished => \A i \in DOMAIN pages : ~pages[i].open

\* C3 amended: every page is used and closed only by the request that opened
\* it, page.close is called on it exactly once before the response is returned,
\* and once all requests have finished the only pages that may remain open are
\* pages whose page.close call raised.
C3_PageClosedOnce ==
    /\ PageUse
    /\ AllFinished =>
          \A i \in DOMAIN pages : pages[i].open => pages[i].close_raised

\* C3 witness: all requests have finished, each opened a page, one of them
\* after a failed set_content and one after a successful screenshot, and every
\* page is closed.
C3_Witness ==
    /\ AllFinished
    /\ Len(pages) = NumRequests
    /\ \A i \in DOMAIN pages : ~pages[i].open /\ pages[i].close_calls = 1
    /\ \E r \in Requests : Failed(r, "set_content")
    /\ \E r \in Requests : Succeeded(r, "screenshot")

\* C4: whatever failed in other requests, the shared state stays usable: the
\* lock is held only by a call that is inside the critical section,
\* browser_instance is either None or the launched browser, and every request
\* that finished without a failure of its own returned 200.
C4_FailureIsolated ==
    /\ browser_lock => \E p \in Procs : InCriticalSection(p)
    /\ browser_instance # None => browser_instance = launched
    /\ \A r \in Requests :
          Done(r) /\ AllOk(r) => response[r].status = 200

\* C4 witness: a request failed to launch the browser and returned 500, and
\* another request then launched it and returned 200.
C4_Witness ==
    \E r1, r2 \in Requests :
        /\ Done(r1) /\ Failed(r1, "launch") /\ response[r1].status = 500
        /\ Done(r2) /\ Succeeded(r2, "launch") /\ response[r2].status = 200

\* The success response the endpoint documents for screenshot bytes b.
IsPngOf(resp, b) ==
    /\ resp.status = 200
    /\ resp.media_type = "image/png"
    /\ resp.headers = <<"Cache-Control: public, max-age=3600",
                        "Content-Disposition: inline">>
    /\ resp.body = <<b>>

\* C5 as stated: when browser acquisition, page creation, content loading, the
\* font wait and the screenshot all succeed, the request returns 200 image/png
\* with the two headers and the screenshot's bytes as body.
C5_Original ==
    \A r \in Requests :
        Done(r) /\ Succeeded(r, "screenshot") =>
            IsPngOf(response[r], Screenshot(pages[page[r]]))

\* C5 amended: when browser acquisition, page creation, content loading, the
\* font wait, the screenshot and the closing of the page all succeed, the
\* request returns 200 image/png with the two headers and the screenshot's
\* bytes as body.
C5_SuccessGivesPng ==
    \A r \in Requests :
        Done(r) /\ Succeeded(r, "screenshot") /\ Succeeded(r, "close") =>
            IsPngOf(response[r], Screenshot(pages[page[r]]))

\* C5 witness: a request with the default parameters went through every step
\* and returned 200 with the screenshot of its page.
C5_Witness ==
    \E r \in Requests :
        /\ Done(r)
        /\ params[r] = DefaultParams
        /\ Succeeded(r, "screenshot") /\ Succeeded(r, "close")
        /\ response[r].status = 200
        /\ response[r].body = <<Screenshot(pages[page[r]])>>
        /\ pages[page[r]].content = RenderHtml(DefaultParams)

\* C6: the image returned for a request is width pixels wide and height
\* pixels high.
C6_OutputSize ==
    \A r \in Requests :
        Done(r) /\ response[r].status = 200 =>
            /\ response[r].body[1].width = params[r].width
            /\ response[r].body[1].height = params[r].height
\* C7: no line the wrapper produces is wider than the maximum, except a line
\* of a single character that is itself wider than the maximum.
C7_LinesFit ==
    \A i \in DOMAIN lines :
        \/ Measure(lines[i], char_width) <= max_width
        \/ Len(lines[i]) = 1

\* C7 witness: a text of one word wider than the maximum was broken by
\* characters into several lines, one of them longer than one character.
C7_Witness ==
    /\ Len(lines) >= 2
    /\ \A i \in DOMAIN text : text[i] \notin {Space, Newline}
    /\ Measure(text, char_width) > max_width
    /\ \E i \in DOMAIN lines : Len(lines[i]) >= 2

\* C8: shutdown calls close on the browser if browser_instance is set, then
\* stop on the driver if playwright_instance is set, the latter also when
\* close raised, and completes whatever the two calls do.
C8_ShutdownCompletes ==
    /\ pc[Lifespan] \in {"stop", "stopped"} =>
          (browser_instance # None => close_calls = 1)
    /\ pc[Lifespan] = "stopped" =>
          (playwright_instance # None =>
              stop_calls = 1 /\ Called(Lifespan, "playwright_stop"))
    /\ Failed(Lifespan, "browser_close") => pc[Lifespan] \in {"stop", "stopped"}
    /\ Failed(Lifespan, "playwright_stop") => pc[Lifespan] = "stopped"
    /\ close_calls <= 1 /\ stop_calls <= 1

\* C8 witness: shutdown has completed although both close and stop raised.
C8_Witness ==
    /\ pc[Lifespan] = "stopped"
    /\ Failed(Lifespan, "browser_close")
    /\ Failed(Lifespan, "playwright_stop")
    /\ close_calls = 1 /\ stop_calls = 1

\* The lock is held exactly while one call is between its check of
\* browser_instance and the end of the launch, and never while a request
\* creates a page or renders.
LockDiscipline ==
    /\ browser_lock <=> \E p \in Procs : InCriticalSection(p)
    /\ \A p, q \in Procs : InCriticalSection(p) /\ InCriticalSection(q) => p = q
    /\ browser_lock => \A r \in Requests : pc[r] # "new_page" /\ ~Rendering(r)

\* A call waiting for the lock can take it, or the call holding it can move.
NoDeadlock ==
    \A p \in Procs :
        pc[p] = "get_browser" =>
            \/ ENABLED GetBrowser(p)
            \/ \E q \in Procs : InCriticalSection(q) /\ ENABLED GetBrowser(q)

\* A call that finds the lock free after a failed launch finds
\* browser_instance None and launches again.
RetryAfterFailure ==
    /\ launched = 0 => browser_instance = None
    /\ \A p \in Procs :
          pc[p] = "get_browser" /\ ~browser_lock /\ launched = 0 =>
              ENABLED LockMiss(p)

\* C9: the lock is released on every path out of get_browser and is never held
\* while a request creates a page or renders, so no call of get_browser is
\* ever blocked for good, and a call made after a failed launch finds
\* browser_instance None and launches again.
C9_LockReleased ==
    /\ LockDiscipline
    /\ NoDeadlock
    /\ RetryAfterFailure

\* C9 witness: two requests render at the same time, each on an open page of
\* its own, with the lock free.
C9_Witness ==
    \E r1, r2 \in Requests :
        /\ r1 # r2
        /\ Rendering(r1) /\ Rendering(r2)
        /\ pages[page[r1]].open /\ pages[page[r2]].open
        /\ ~browser_lock
=============================================================================
